---------------------------- MODULE Spec2Model ----------------------------
(***************************************************************************)
(* A model of type-is (src/index.js): the memoised normalize / match / is  *)
(* pipeline, the body check and the request classifier.                    *)
(*                                                                         *)
(* Strings are sequences of one-character strings, so that indexOf, split, *)
(* slice, toLowerCase and concatenation are computed, not assumed.  A      *)
(* JavaScript value is a record with a kind k; the outcome of a call is a  *)
(* JavaScript value or the marker Throw (an exception reached the caller). *)
(***************************************************************************)
EXTENDS Integers, Sequences, FiniteSets, TLC

VARIABLES normalizeCache, normalizeCacheSize,
          mimeMatchCache, mimeMatchCacheSize,
          splitCache, splitCacheSize,
          call, ret

vars == <<normalizeCache, normalizeCacheSize, mimeMatchCache, mimeMatchCacheSize,
          splitCache, splitCacheSize, call, ret>>

(***************************************************************************)
(* Bounds.  The three caps stand for the program's 500, 1000 and 200       *)
(* (src/index.js:27, 32, 37), scaled down so that a full cache is reached. *)
(***************************************************************************)
MAX_NORMALIZE_CACHE == 2
MAX_MIME_MATCH_CACHE == 2
MAX_SPLIT_CACHE == 2

(***************************************************************************)
(* String literals of the source.                                          *)
(***************************************************************************)
sApplicationJson == <<"a", "p", "p", "l", "i", "c", "a", "t", "i", "o", "n", "/", "j", "s", "o", "n">>
sApplicationUrlencoded == <<"a", "p", "p", "l", "i", "c", "a", "t", "i", "o", "n", "/", "x", "-", "w", "w", "w", "-", "f", "o", "r", "m", "-", "u", "r", "l", "e", "n", "c", "o", "d", "e", "d">>
sTextHtml == <<"t", "e", "x", "t", "/", "h", "t", "m", "l">>
sTextPlain == <<"t", "e", "x", "t", "/", "p", "l", "a", "i", "n">>
sMultipartFormData == <<"m", "u", "l", "t", "i", "p", "a", "r", "t", "/", "f", "o", "r", "m", "-", "d", "a", "t", "a">>
sApplicationOctetStream == <<"a", "p", "p", "l", "i", "c", "a", "t", "i", "o", "n", "/", "o", "c", "t", "e", "t", "-", "s", "t", "r", "e", "a", "m">>
sImagePng == <<"i", "m", "a", "g", "e", "/", "p", "n", "g">>
sImageJpeg == <<"i", "m", "a", "g", "e", "/", "j", "p", "e", "g">>
sApplicationXml == <<"a", "p", "p", "l", "i", "c", "a", "t", "i", "o", "n", "/", "x", "m", "l">>
sTextXml == <<"t", "e", "x", "t", "/", "x", "m", "l">>
sJson == <<"j", "s", "o", "n">>
sHtml == <<"h", "t", "m", "l">>
sXml == <<"x", "m", "l">>
sText == <<"t", "e", "x", "t">>
sPng == <<"p", "n", "g">>
sJpg == <<"j", "p", "g">>
sJpeg == <<"j", "p", "e", "g">>
sUrlencoded == <<"u", "r", "l", "e", "n", "c", "o", "d", "e", "d">>
sMultipart == <<"m", "u", "l", "t", "i", "p", "a", "r", "t">>
sMultipartAny == <<"m", "u", "l", "t", "i", "p", "a", "r", "t", "/", "*">>
sAnyAny == <<"*", "/", "*">>
sConstructor == <<"c", "o", "n", "s", "t", "r", "u", "c", "t", "o", "r">>
sToString == <<"t", "o", "S", "t", "r", "i", "n", "g">>
sValueOf == <<"v", "a", "l", "u", "e", "O", "f">>
sHasOwnProperty == <<"h", "a", "s", "O", "w", "n", "P", "r", "o", "p", "e", "r", "t", "y">>
sIsPrototypeOf == <<"i", "s", "P", "r", "o", "t", "o", "t", "y", "p", "e", "O", "f">>
sPropertyIsEnumerable == <<"p", "r", "o", "p", "e", "r", "t", "y", "I", "s", "E", "n", "u", "m", "e", "r", "a", "b", "l", "e">>
sToLocaleString == <<"t", "o", "L", "o", "c", "a", "l", "e", "S", "t", "r", "i", "n", "g">>
sProto == <<"_", "_", "p", "r", "o", "t", "o", "_", "_">>
sDefineGetter == <<"_", "_", "d", "e", "f", "i", "n", "e", "G", "e", "t", "t", "e", "r", "_", "_">>
sDefineSetter == <<"_", "_", "d", "e", "f", "i", "n", "e", "S", "e", "t", "t", "e", "r", "_", "_">>
sLookupGetter == <<"_", "_", "l", "o", "o", "k", "u", "p", "G", "e", "t", "t", "e", "r", "_", "_">>
sLookupSetter == <<"_", "_", "l", "o", "o", "k", "u", "p", "S", "e", "t", "t", "e", "r", "_", "_">>
sObject == <<"O", "b", "j", "e", "c", "t">>
sFunctionPrefix == <<"f", "u", "n", "c", "t", "i", "o", "n", " ">>
sNativeCode == <<"(", ")", " ", "{", " ", "[", "n", "a", "t", "i", "v", "e", " ", "c", "o", "d", "e", "]", " ", "}">>
sObjectObject == <<"[", "o", "b", "j", "e", "c", "t", " ", "O", "b", "j", "e", "c", "t", "]">>
sFalse == <<"f", "a", "l", "s", "e">>
sTrue == <<"t", "r", "u", "e">>
sNull == <<"n", "u", "l", "l">>
sUndefined == <<"u", "n", "d", "e", "f", "i", "n", "e", "d">>
sTxt == <<"t", "x", "t">>
sCss == <<"c", "s", "s">>
sGif == <<"g", "i", "f">>
sPdf == <<"p", "d", "f">>
sTextCss == <<"t", "e", "x", "t", "/", "c", "s", "s">>
sImageGif == <<"i", "m", "a", "g", "e", "/", "g", "i", "f">>
sApplicationPdf == <<"a", "p", "p", "l", "i", "c", "a", "t", "i", "o", "n", "/", "p", "d", "f">>

(***************************************************************************)
(* JavaScript values.                                                      *)
(***************************************************************************)
Str(s) == [k |-> "string", s |-> s]
Num(s) == [k |-> "number", s |-> s]
Fn(name) == [k |-> "function", s |-> name]
Arr(items) == [k |-> "array", items |-> items]
Obj(headers) == [k |-> "object", headers |-> headers]
JsFalse == [k |-> "boolean", s |-> sFalse]
JsTrue == [k |-> "boolean", s |-> sTrue]
JsNull == [k |-> "null", s |-> sNull]
JsUndefined == [k |-> "undefined", s |-> sUndefined]
ObjectPrototype == [k |-> "prototype", s |-> sObjectObject]
Throw == [k |-> "throw", s |-> <<>>]
Bool(b) == IF b THEN JsTrue ELSE JsFalse

\* ToBoolean: what `!value` and `if (value)` test.
Truthy(v) ==
    CASE v.k = "string" -> v.s # <<>>
      [] v.k = "number" -> v.s # <<"0">>
      [] v.k = "boolean" -> v = JsTrue
      [] v.k \in {"null", "undefined"} -> FALSE
      [] OTHER -> TRUE

\* ToString, as used for a property key and by `+` with a string operand.
JsToString(v) ==
    CASE v.k = "function" -> sFunctionPrefix \o v.s \o sNativeCode
      [] v.k \in {"object", "prototype"} -> sObjectObject
      [] OTHER -> v.s

\* typeof value === 'object' && value.headers
HasHeaders(v) == v.k = "object" /\ Truthy(v.headers)

(***************************************************************************)
(* String methods.  Positions are JavaScript's: the first character is 0.  *)
(***************************************************************************)
IndexOf(s, c) ==
    IF \E i \in 1..Len(s) : s[i] = c
    THEN (CHOOSE i \in 1..Len(s) : s[i] = c /\ \A j \in 1..(i - 1) : s[j] # c) - 1
    ELSE -1

\* s.slice(from), s.slice(from, to): a negative position counts from the end.
SliceIndex(s, i) == IF i < 0 THEN (IF Len(s) + i < 0 THEN 0 ELSE Len(s) + i)
                    ELSE (IF i > Len(s) THEN Len(s) ELSE i)
Slice2(s, from, to) == SubSeq(s, SliceIndex(s, from) + 1, SliceIndex(s, to))
Slice(s, from) == Slice2(s, from, Len(s))

RECURSIVE Split(_, _)
Split(s, c) ==
    LET i == IndexOf(s, c)
    IN  IF i = -1 THEN <<s>>
        ELSE <<Slice2(s, 0, i)>> \o Split(Slice(s, i + 1), c)

UpperCase == <<"A", "B", "C", "D", "E", "F", "G", "H", "I", "J", "K", "L", "M",
               "N", "O", "P", "Q", "R", "S", "T", "U", "V", "W", "X", "Y", "Z">>
LowerCase == <<"a", "b", "c", "d", "e", "f", "g", "h", "i", "j", "k", "l", "m",
               "n", "o", "p", "q", "r", "s", "t", "u", "v", "w", "x", "y", "z">>
Digits == {"0", "1", "2", "3", "4", "5", "6", "7", "8", "9"}
Range(f) == {f[i] : i \in DOMAIN f}
LowerChar(c) ==
    IF c \in Range(UpperCase)
    THEN LowerCase[CHOOSE i \in 1..26 : UpperCase[i] = c]
    ELSE c
ToLowerCase(s) == [i \in 1..Len(s) |-> LowerChar(s[i])]

RECURSIVE TrimStart(_)
TrimStart(s) == IF s # <<>> /\ Head(s) = " " THEN TrimStart(Tail(s)) ELSE s
RECURSIVE TrimEnd(_)
TrimEnd(s) ==
    IF s # <<>> /\ s[Len(s)] = " " THEN TrimEnd(SubSeq(s, 1, Len(s) - 1)) ELSE s
Trim(s) == TrimEnd(TrimStart(s))

(***************************************************************************)
(* The lookup tables.  Both are object literals, so a read of a key they   *)
(* do not own falls through to Object.prototype.                           *)
(***************************************************************************)
COMMON_TYPES ==
    {sApplicationJson, sApplicationUrlencoded, sTextHtml, sTextPlain,
     sMultipartFormData, sApplicationOctetStream, sImagePng, sImageJpeg,
     sApplicationXml, sTextXml}

COMMON_SHORTCUTS ==
    (sJson :> sApplicationJson) @@ (sHtml :> sTextHtml) @@ (sXml :> sApplicationXml)
    @@ (sText :> sTextPlain) @@ (sPng :> sImagePng) @@ (sJpg :> sImageJpeg)
    @@ (sJpeg :> sImageJpeg)

ObjectPrototypeKeys ==
    {sConstructor, sToString, sValueOf, sHasOwnProperty, sIsPrototypeOf,
     sPropertyIsEnumerable, sToLocaleString, sProto, sDefineGetter,
     sDefineSetter, sLookupGetter, sLookupSetter}

\* Object.prototype[key]
InheritedGet(key) ==
    IF key = sConstructor THEN Fn(sObject)
    ELSE IF key = sProto THEN ObjectPrototype
    ELSE IF key \in ObjectPrototypeKeys THEN Fn(key)
    ELSE JsUndefined

\* COMMON_TYPES[value]
CommonTypesGet(value) ==
    LET key == JsToString(value)
    IN  IF key \in COMMON_TYPES THEN Str(key) ELSE InheritedGet(key)

\* COMMON_SHORTCUTS[type]
CommonShortcutsGet(type) ==
    IF type \in DOMAIN COMMON_SHORTCUTS THEN Str(COMMON_SHORTCUTS[type])
    ELSE InheritedGet(type)

(***************************************************************************)
(* The collaborators: content-type's parse, media-typer's test and         *)
(* mime-types' lookup.  Their code is not part of the repository; they are *)
(* modelled from the grammar the specification gives (sections 4.5 and 6). *)
(***************************************************************************)
Alnum == Range(UpperCase) \cup Range(LowerCase) \cup Digits

\* token of the media-type grammar (the backquote, which no input of the
\* model holds, is left out)
TokenChars == Alnum \cup {"!", "#", "$", "%", "&", "'", "*", "+", ".", "^", "_", "|", "~", "-"}
IsToken(s) == s # <<>> /\ \A i \in 1..Len(s) : s[i] \in TokenChars

\* one parameter: *SP token *SP "=" *SP token *SP (quoted values are outside
\* the alphabet of the model)
IsParameter(p) ==
    LET eq == IndexOf(p, "=")
    IN  /\ eq # -1
        /\ IsToken(Trim(Slice2(p, 0, eq)))
        /\ IsToken(Trim(Slice(p, eq + 1)))

\* contentType.parse(string): [ok |-> FALSE] stands for the TypeError it throws
ContentTypeParse(string) ==
    LET index == IndexOf(string, ";")
        type == Trim(IF index # -1 THEN Slice2(string, 0, index) ELSE string)
        parts == Split(type, "/")
        params == IF index # -1 THEN Split(Slice(string, index + 1), ";") ELSE <<>>
    IN  IF /\ Len(parts) = 2
           /\ IsToken(parts[1])
           /\ IsToken(parts[2])
           /\ \A i \in 1..Len(params) : IsParameter(params[i])
        THEN [ok |-> TRUE, type |-> ToLowerCase(type)]
        ELSE [ok |-> FALSE, type |-> <<>>]

\* typer.test(string): type and subtype start with a letter or digit
TyperTypeChars == Alnum \cup {"!", "#", "$", "&", "^", "_", "-"}
TyperSubtypeChars == TyperTypeChars \cup {".", "+"}
TyperTest(string) ==
    LET parts == Split(Trim(ToLowerCase(string)), "/")
    IN  /\ Len(parts) = 2
        /\ parts[1] # <<>> /\ parts[2] # <<>>
        /\ parts[1][1] \in Alnum /\ parts[2][1] \in Alnum
        /\ \A i \in 1..Len(parts[1]) : parts[1][i] \in TyperTypeChars
        /\ \A i \in 1..Len(parts[2]) : parts[2][i] \in TyperSubtypeChars

\* The extension database behind mime.lookup, cut down to four entries.
MimeTypes ==
    (sTxt :> sTextPlain) @@ (sCss :> sTextCss) @@ (sGif :> sImageGif)
    @@ (sPdf :> sApplicationPdf)

RECURSIVE Extension(_)
Extension(path) ==
    LET dot == IndexOf(path, ".")
    IN  IF dot = -1 THEN path ELSE Extension(Slice(path, dot + 1))

\* mime.lookup(path): the type of the extension after the last dot, or false
MimeLookup(path) ==
    LET extension == ToLowerCase(Extension(path))
    IN  IF extension \in DOMAIN MimeTypes THEN Str(MimeTypes[extension]) ELSE JsFalse

(***************************************************************************)
(* The caches, passed through the functions as one record.                 *)
(***************************************************************************)
Caches ==
    [normalizeCache |-> normalizeCache, normalizeCacheSize |-> normalizeCacheSize,
     mimeMatchCache |-> mimeMatchCache, mimeMatchCacheSize |-> mimeMatchCacheSize,
     splitCache |-> splitCache, splitCacheSize |-> splitCacheSize]

\* cache[key] !== undefined
CacheHit(cache, key) == key \in DOMAIN cache /\ cache[key] # JsUndefined

(***************************************************************************)
(* normalize (src/index.js:207-250)                                        *)
(***************************************************************************)
\* lines 218-241: the result for a string that missed the cache
normalizeResult(type) ==
    IF Truthy(CommonShortcutsGet(type)) THEN CommonShortcutsGet(type)
    ELSE IF type = sUrlencoded THEN Str(sApplicationUrlencoded)
    ELSE IF type = sMultipart THEN Str(sMultipartAny)
    ELSE IF type # <<>> /\ type[1] = "+" THEN Str(sAnyAny \o type)
    ELSE IF IndexOf(type, "/") = -1 THEN MimeLookup(type)
    ELSE Str(type)

normalize(type, c) ==
    IF type.k # "string" THEN [ret |-> JsFalse, c |-> c]
    ELSE IF CacheHit(c.normalizeCache, type.s)
    THEN [ret |-> c.normalizeCache[type.s], c |-> c]
    ELSE LET result == normalizeResult(type.s)
         IN  [ret |-> result,
              c |-> IF c.normalizeCacheSize < MAX_NORMALIZE_CACHE
                    THEN [c EXCEPT !.normalizeCache = (type.s :> result) @@ @,
                                   !.normalizeCacheSize = @ + 1]
                    ELSE c]

(***************************************************************************)
(* mimeMatch (src/index.js:263-330)                                        *)
(***************************************************************************)
\* lines 287-294 and 296-303: the parts of one operand, through splitCache.
\* A value without a split method that misses the cache throws.
splitCached(v, c) ==
    LET key == JsToString(v)
    IN  IF key \in DOMAIN c.splitCache
        THEN [threw |-> FALSE, parts |-> c.splitCache[key], c |-> c]
        ELSE IF v.k # "string" THEN [threw |-> TRUE, parts |-> <<>>, c |-> c]
        ELSE LET parts == Split(v.s, "/")
             IN  [threw |-> FALSE, parts |-> parts,
                  c |-> IF c.splitCacheSize < MAX_SPLIT_CACHE
                        THEN [c EXCEPT !.splitCache = (key :> parts) @@ @,
                                       !.splitCacheSize = @ + 1]
                        ELSE c]

\* matchParts with the suffix compared from one character too far: the '+'
\* is dropped, so the bare suffix matches as well
matchPartsBareSuffix(expectedParts, actualParts) ==
    IF Len(actualParts) # 2 \/ Len(expectedParts) # 2 THEN FALSE
    ELSE IF expectedParts[1] # <<"*">> /\ expectedParts[1] # actualParts[1] THEN FALSE
    ELSE IF Slice2(expectedParts[2], 0, 2) = <<"*", "+">>
    THEN /\ Len(expectedParts[2]) <= Len(actualParts[2]) + 2
         /\ Slice(expectedParts[2], 2) = Slice(actualParts[2], 2 - Len(expectedParts[2]))
    ELSE IF expectedParts[2] # <<"*">> /\ expectedParts[2] # actualParts[2] THEN FALSE
    ELSE TRUE

\* lines 306-320
matchParts(expectedParts, actualParts) ==
    IF Len(actualParts) # 2 \/ Len(expectedParts) # 2 THEN FALSE
    ELSE IF expectedParts[1] # <<"*">> /\ expectedParts[1] # actualParts[1] THEN FALSE
    ELSE IF Slice2(expectedParts[2], 0, 2) = <<"*", "+">>
    THEN /\ Len(expectedParts[2]) <= Len(actualParts[2]) + 1
         /\ Slice(expectedParts[2], 1) = Slice(actualParts[2], 1 - Len(expectedParts[2]))
    ELSE IF expectedParts[2] # <<"*">> /\ expectedParts[2] # actualParts[2] THEN FALSE
    ELSE TRUE

\* lines 323-329
storeMatch(cacheKey, result, c) ==
    [ret |-> result,
     c |-> IF c.mimeMatchCacheSize < MAX_MIME_MATCH_CACHE
           THEN [c EXCEPT !.mimeMatchCache = (cacheKey :> result) @@ @,
                          !.mimeMatchCacheSize = @ + 1]
           ELSE c]

mimeMatchKey(expected, actual) == JsToString(expected) \o <<"|">> \o JsToString(actual)

mimeMatch(expected, actual, c) ==
    IF expected = JsFalse THEN [ret |-> JsFalse, c |-> c]
    ELSE LET cacheKey == mimeMatchKey(expected, actual)
         IN  IF CacheHit(c.mimeMatchCache, cacheKey)
             THEN [ret |-> c.mimeMatchCache[cacheKey], c |-> c]
             ELSE IF expected = actual THEN storeMatch(cacheKey, JsTrue, c)
             ELSE IF expected = Str(sAnyAny)
             THEN IF actual.k # "string" THEN [ret |-> Throw, c |-> c]
                  ELSE storeMatch(cacheKey, Bool(IndexOf(actual.s, "/") # -1), c)
             ELSE LET a == splitCached(actual, c)
                      e == splitCached(expected, a.c)
                  IN  IF a.threw THEN [ret |-> Throw, c |-> c]
                      ELSE IF e.threw THEN [ret |-> Throw, c |-> a.c]
                      ELSE storeMatch(cacheKey, Bool(matchParts(e.parts, a.parts)), e.c)

(***************************************************************************)
(* normalizeType and tryNormalizeType (src/index.js:339-390)               *)
(***************************************************************************)
\* Returns the type, JsNull, or Throw for the parser's TypeError.
normalizeType(value) ==
    IF Truthy(CommonTypesGet(value)) THEN value
    ELSE LET parsed == ContentTypeParse(value.s)
         IN  IF ~parsed.ok THEN Throw
             ELSE IF TyperTest(parsed.type) THEN Str(parsed.type) ELSE JsNull

\* lines 371-389, on the value left after the headers are unwrapped.  Only
\* the call of normalizeType is inside the try block.
tryNormalizeValue(value) ==
    IF Truthy(CommonTypesGet(value)) THEN value
    ELSE IF value.k # "string" THEN Throw
    ELSE IF /\ IndexOf(value.s, ";") = -1
            /\ Truthy(CommonTypesGet(Str(ToLowerCase(value.s))))
    THEN Str(ToLowerCase(value.s))
    ELSE IF normalizeType(value) = Throw THEN JsNull
    ELSE normalizeType(value)

tryNormalizeType(value) ==
    IF ~Truthy(value) THEN JsNull
    ELSE IF HasHeaders(value)
    THEN IF ~Truthy(value.headers.contentType) THEN JsNull
         ELSE tryNormalizeValue(value.headers.contentType)
    ELSE tryNormalizeValue(value)

(***************************************************************************)
(* typeis (src/index.js:89-125).  args is the arguments object.            *)
(***************************************************************************)
\* lines 117-119: what a matching pattern returns
matched(type, val) ==
    IF type.k # "string" THEN Throw
    ELSE IF (type.s # <<>> /\ type.s[1] = "+") \/ IndexOf(type.s, "*") # -1 THEN val
    ELSE type

\* lines 115-124: the loop from index i on
RECURSIVE typeisLoop(_, _, _, _)
typeisLoop(types, i, val, c) ==
    IF i > Len(types) THEN [ret |-> JsFalse, c |-> c]
    ELSE LET n == normalize(types[i], c)
             m == mimeMatch(n.ret, val, n.c)
         IN  IF m.ret = Throw THEN [ret |-> Throw, c |-> m.c]
             ELSE IF Truthy(m.ret) THEN [ret |-> matched(types[i], val), c |-> m.c]
             ELSE typeisLoop(types, i + 1, val, m.c)

\* typeis returning the extractor's own negative result instead of false
typeisNullOnNoType(args, c) ==
    LET value == args[1]
        types_ == IF Len(args) >= 2 THEN args[2] ELSE JsUndefined
        val == tryNormalizeType(value)
        types == IF Truthy(types_) /\ types_.k # "array" THEN Arr(Tail(args))
                 ELSE types_
    IN  IF val = Throw THEN [ret |-> Throw, c |-> c]
        ELSE IF ~Truthy(val) THEN [ret |-> val, c |-> c]
        ELSE IF ~Truthy(types) \/ Len(types.items) = 0 THEN [ret |-> val, c |-> c]
        ELSE typeisLoop(types.items, 1, val, c)

typeis(args, c) ==
    LET value == args[1]
        types_ == IF Len(args) >= 2 THEN args[2] ELSE JsUndefined
        val == tryNormalizeType(value)
        types == IF Truthy(types_) /\ types_.k # "array" THEN Arr(Tail(args))
                 ELSE types_
    IN  IF val = Throw THEN [ret |-> Throw, c |-> c]
        ELSE IF ~Truthy(val) THEN [ret |-> JsFalse, c |-> c]
        ELSE IF ~Truthy(types) \/ Len(types.items) = 0 THEN [ret |-> val, c |-> c]
        ELSE typeisLoop(types.items, 1, val, c)

(***************************************************************************)
(* hasbody and typeofrequest (src/index.js:138-188)                        *)
(***************************************************************************)
\* Number(string) is a number: blank, or an optionally signed run of digits
\* (fractions, exponents and radix prefixes are outside the model's inputs)
StringIsNumber(s) ==
    LET t == Trim(s)
        u == IF t # <<>> /\ t[1] \in {"+", "-"} THEN Tail(t) ELSE t
    IN  t = <<>> \/ (u # <<>> /\ \A i \in 1..Len(u) : u[i] \in Digits)

\* isNaN(value)
IsNaN(v) ==
    CASE v.k = "string" -> ~StringIsNumber(v.s)
      [] v.k \in {"number", "boolean", "null"} -> FALSE
      [] OTHER -> TRUE

hasbody(req) ==
    IF req.headers.transferEncoding # JsUndefined THEN TRUE
    ELSE /\ req.headers.contentLength # JsUndefined
         /\ ~IsNaN(req.headers.contentLength)

typeofrequest(args, c) ==
    LET req == args[1]
        types == IF Len(args) > 2 THEN Arr(Tail(args))
                 ELSE IF Len(args) = 2 THEN args[2] ELSE JsUndefined
    IN  IF ~hasbody(req) THEN [ret |-> JsNull, c |-> c]
        ELSE typeis(<<req.headers.contentType, types>>, c)

(***************************************************************************)
(* Inputs of the calls.                                                    *)
(***************************************************************************)
Headers(contentType, transferEncoding, contentLength) ==
    [k |-> "headers", contentType |-> contentType,
     transferEncoding |-> transferEncoding, contentLength |-> contentLength]

sAnyAnyBarX == <<"*", "/", "*", "|", "x">>
sXBarTextHtml == <<"x", "|", "t", "e", "x", "t", "/", "h", "t", "m", "l">>
s42 == <<"4", "2">>
sAnyPlusJson == <<"*", "/", "*", "+", "j", "s", "o", "n">>
sVndApiJson == <<"a", "p", "p", "l", "i", "c", "a", "t", "i", "o", "n", "/", "v", "n", "d", ".", "a", "p", "i", "+", "j", "s", "o", "n">>
sABC == <<"a", "/", "b", "/", "c">>
sSlash == <<"/">>

\* normalize, match and is, called in any order
NormalizeArgs == {Str(sJson), Str(sConstructor), Num(s42)}
MatchExpected == {Str(sAnyAny), Str(sAnyAnyBarX)}
MatchActual == {Str(sTextHtml), Str(sXBarTextHtml)}
IsValues ==
    {Str(sTextHtml), Str(sConstructor), Num(s42),
     Obj(Headers(JsUndefined, JsUndefined, JsUndefined))}
IsTypes ==
    {<<>>, <<Arr(<<Str(sJson)>>)>>, <<Arr(<<Str(sAnyAnyBarX)>>)>>,
     <<Arr(<<Str(sConstructor), Str(sTextHtml)>>)>>, <<Str(sHtml), Str(sJson)>>}

\* the request classifier
Requests ==
    {Obj(Headers(ct, te, cl)) :
        ct \in {JsUndefined, Str(sTextHtml)},
        te \in {JsUndefined, Str(<<>>)},
        cl \in {JsUndefined, Str(<<"0">>), Str(<<"a">>)}}
RequestTypes ==
    {<<>>, <<Str(<<>>)>>, <<Arr(<<Str(<<>>)>>)>>, <<Str(sHtml)>>,
     <<Arr(<<Str(sHtml)>>)>>, <<Str(sJson), Str(sHtml)>>,
     <<Arr(<<Str(sJson), Str(sHtml)>>)>>}

\* the matcher alone, on wildcard and suffix patterns
WildcardExpected == {Str(sAnyAny), Str(sAnyPlusJson), Str(sAnyAnyBarX)}
WildcardActual ==
    {Str(sVndApiJson), Str(sApplicationJson), Str(sABC), Str(sTextHtml),
     Str(sXBarTextHtml)}

(***************************************************************************)
(* The state machine: one action per exported function.                    *)
(***************************************************************************)
Init ==
    /\ normalizeCache = <<>> /\ normalizeCacheSize = 0
    /\ mimeMatchCache = <<>> /\ mimeMatchCacheSize = 0
    /\ splitCache = <<>> /\ splitCacheSize = 0
    /\ call = [op |-> "none", args |-> <<>>]
    /\ ret = JsUndefined

\* the caches and the outcome after a call that returned r
Return(op, args, r) ==
    /\ normalizeCache' = r.c.normalizeCache
    /\ normalizeCacheSize' = r.c.normalizeCacheSize
    /\ mimeMatchCache' = r.c.mimeMatchCache
    /\ mimeMatchCacheSize' = r.c.mimeMatchCacheSize
    /\ splitCache' = r.c.splitCache
    /\ splitCacheSize' = r.c.splitCacheSize
    /\ call' = [op |-> op, args |-> args]
    /\ ret' = r.ret

CallNormalize == \E type \in NormalizeArgs :
    Return("normalize", <<type>>, normalize(type, Caches))

CallMatch == \E expected \in MatchExpected, actual \in MatchActual :
    Return("match", <<expected, actual>>, mimeMatch(expected, actual, Caches))

CallIs == \E value \in IsValues, types \in IsTypes :
    Return("is", <<value>> \o types, typeis(<<value>> \o types, Caches))

CallTypeOfRequest == \E req \in Requests, types \in RequestTypes :
    Return("typeofrequest", <<req>> \o types, typeofrequest(<<req>> \o types, Caches))

CallMatchWildcard == \E expected \in WildcardExpected, actual \in WildcardActual :
    Return("match", <<expected, actual>>, mimeMatch(expected, actual, Caches))

Next == CallNormalize \/ CallMatch \/ CallIs

Spec == Init /\ [][Next]_vars

NextRequest == CallTypeOfRequest

SpecRequest == Init /\ [][NextRequest]_vars

NextMatch == CallMatchWildcard \/ CallMatch

SpecMatch == Init /\ [][NextMatch]_vars

(***************************************************************************)
(* The properties.                                                         *)
(***************************************************************************)
\* Caches that never hit and never store: the computation without memoisation.
CacheFree ==
    [normalizeCache |-> <<>>, normalizeCacheSize |-> MAX_NORMALIZE_CACHE,
     mimeMatchCache |-> <<>>, mimeMatchCacheSize |-> MAX_MIME_MATCH_CACHE,
     splitCache |-> <<>>, splitCacheSize |-> MAX_SPLIT_CACHE]

CacheFreeResult(c) ==
    CASE c.op = "normalize" -> normalize(c.args[1], CacheFree).ret
      [] c.op = "match" -> mimeMatch(c.args[1], c.args[2], CacheFree).ret
      [] c.op = "is" -> typeis(c.args, CacheFree).ret
      [] OTHER -> typeofrequest(c.args, CacheFree).ret

\* C1: every call of normalize, match and is returns what the computation
\* without caches returns for the same arguments, whatever calls came before.
CacheTransparency ==
    call.op \in {"normalize", "match", "is"} => ret = CacheFreeResult(call)

\* match(normalize(p), t) of the specification: no memoisation
PatternMatches(p, t) ==
    mimeMatch(normalize(p, CacheFree).ret, t, CacheFree).ret = JsTrue

FirstMatch(patterns, t) ==
    IF \A i \in 1..Len(patterns) : ~PatternMatches(patterns[i], t) THEN JsFalse
    ELSE LET i == CHOOSE j \in 1..Len(patterns) :
                      /\ PatternMatches(patterns[j], t)
                      /\ \A h \in 1..(j - 1) : ~PatternMatches(patterns[h], t)
             p == patterns[i].s
         IN  IF (p # <<>> /\ p[1] = "+") \/ (\E n \in 1..Len(p) : p[n] = "*")
             THEN t ELSE patterns[i]

\* C2: is(value, patterns) with an extracted type t and a non-empty pattern
\* list returns false iff no pattern matches t, and otherwise what the first
\* matching pattern gives: t for a '+' or '*' pattern, else the pattern.
FirstMatchWins ==
    (/\ call.op = "is"
     /\ Len(call.args) = 2
     /\ call.args[2].k = "array"
     /\ Len(call.args[2].items) > 0
     /\ tryNormalizeType(call.args[1]).k = "string")
    => ret = FirstMatch(call.args[2].items, tryNormalizeType(call.args[1]))

\* C3: is returns a string or false and the request classifier a string,
\* false or null; no call ends in an exception.
NeverThrows ==
    /\ call.op = "is" => (ret.k = "string" \/ ret = JsFalse)
    /\ call.op = "typeofrequest" => (ret.k = "string" \/ ret = JsFalse \/ ret = JsNull)

\* lowercase, no parameters, one '/', a non-empty token on each side
IsMediaType(s) ==
    LET parts == Split(s, "/")
    IN  /\ Len(parts) = 2
        /\ IsToken(parts[1]) /\ IsToken(parts[2])
        /\ s = ToLowerCase(s)

\* C4: is(value) without patterns, for a string or a request-like object,
\* returns a canonical media type or false.
ExtractorReturnsMediaType ==
    (/\ call.op = "is"
     /\ Len(call.args) = 1
     /\ (call.args[1].k = "string" \/ HasHeaders(call.args[1])))
    => (ret = JsFalse \/ (ret.k = "string" /\ IsMediaType(ret.s)))

OneSlashNonEmptySegments(a) ==
    /\ Cardinality({i \in 1..Len(a) : a[i] = "/"}) = 1
    /\ a[1] # "/" /\ a[Len(a)] # "/"

\* C5: match("*/*", a) is true iff a has exactly one '/' with a non-empty
\* segment on each side.
WildcardMatchesWellFormed ==
    (call.op = "match" /\ call.args[1] = Str(sAnyAny))
    => (ret = JsTrue <=> OneSlashNonEmptySegments(call.args[2].s))

\* the subtype of t (t has exactly one '/') ends in "+" followed by s
SubtypeEndsInPlus(t, s) ==
    LET parts == Split(t, "/")
        n == Len(s) + 1
    IN  /\ Len(parts) = 2
        /\ Len(parts[2]) >= n
        /\ SubSeq(parts[2], Len(parts[2]) - n + 1, Len(parts[2])) = <<"+">> \o s

\* the subtype of t is exactly s
SubtypeIs(t, s) == Len(Split(t, "/")) = 2 /\ Split(t, "/")[2] = s

SeparatorFree(s) == \A i \in 1..Len(s) : s[i] # "|"
Suffixes == {sJson, sXml, <<"s">>}
SuffixTypes ==
    {sVndApiJson, sApplicationJson, sApplicationXml, sTextHtml, sABC, sSlash,
     sJson, <<"a", "/", "+", "j", "s", "o", "n">>, <<"a", "/", "b", "+", "s">>,
     <<"a", "/", "s">>, <<"a", "/", "+", "s">>, <<"*", "/", "*", "+", "s">>,
     <<"a", "/", "b", "+", "j", "s", "o", "n", "/", "c">>}
SuffixPattern(s) == sAnyAny \o <<"+">> \o s

\* C6, as claimed: "*/*+s" matches a subtype ending in "+s" and the subtype s
\* itself.
SuffixMatchesBareSuffix ==
    (/\ call.op = "match"
     /\ \E s \in Suffixes :
            /\ call.args[1] = Str(SuffixPattern(s))
            /\ SubtypeEndsInPlus(call.args[2].s, s) \/ SubtypeIs(call.args[2].s, s))
    => ret = JsTrue

\* C6, amended: for a suffix s and a type t without '|', match("*/*+s", t) is
\* true exactly when the subtype of t ends in "+s"; it is false for the bare
\* subtype s.  It holds of the last call and of every call that could follow.
SuffixMatchesSuffixedOnly ==
    /\ \A s \in Suffixes :
          (/\ call.op = "match"
           /\ call.args[1] = Str(SuffixPattern(s))
           /\ SeparatorFree(call.args[2].s))
          => ret = Bool(SubtypeEndsInPlus(call.args[2].s, s))
    /\ \A s \in Suffixes, t \in SuffixTypes :
          /\ mimeMatch(Str(SuffixPattern(s)), Str(t), Caches).ret
                = Bool(SubtypeEndsInPlus(t, s))
          /\ SubtypeIs(t, s) =>
                mimeMatch(Str(SuffixPattern(s)), Str(t), Caches).ret = JsFalse

\* match("*/*+json", "application/json") has returned false from a full match
\* cache, in a state where the suffixed type would match
SuffixWitness ==
    /\ call = [op |-> "match", args |-> <<Str(sAnyPlusJson), Str(sApplicationJson)>>]
    /\ ret = JsFalse
    /\ mimeMatchCacheSize = MAX_MIME_MATCH_CACHE
    /\ mimeMatch(Str(sAnyPlusJson), Str(sVndApiJson), Caches).ret = JsTrue

NoContentType(v) == HasHeaders(v) /\ v.headers.contentType = JsUndefined

\* C7, as claimed: is on a request-like value without a content-type entry
\* returns null.
NoContentTypeIsNull ==
    (call.op = "is" /\ NoContentType(call.args[1])) => ret = JsNull

\* C7, amended: is on a request-like value without a content-type entry
\* returns false, with or without patterns; is never returns null.
NoContentTypeIsFalse ==
    /\ (call.op = "is" /\ NoContentType(call.args[1])) => ret = JsFalse
    /\ call.op = "is" => ret # JsNull
    /\ \A types \in IsTypes :
          typeis(<<Obj(Headers(JsUndefined, JsUndefined, JsUndefined))>> \o types,
                 Caches).ret = JsFalse

\* is({headers: {}}, ['json']) has returned false
NoContentTypeWitness ==
    /\ call = [op |-> "is",
               args |-> <<Obj(Headers(JsUndefined, JsUndefined, JsUndefined)),
                          Arr(<<Str(sJson)>>)>>]
    /\ ret = JsFalse

\* the request has no body, in the words of the claim
NoBody(req) ==
    /\ req.headers.transferEncoding = JsUndefined
    /\ \/ req.headers.contentLength = JsUndefined
       \/ IsNaN(req.headers.contentLength)

\* the patterns of a call, given as one array or as trailing arguments
PatternsOf(args) ==
    IF Len(args) = 2 /\ args[2].k = "array" THEN args[2].items ELSE Tail(args)

\* C8: the request classifier returns null exactly when the request has no
\* body, and otherwise what is returns for the content-type and the patterns,
\* whether they came as an array or as trailing arguments.
RequestClassifier ==
    [][call'.op = "typeofrequest" =>
        LET req == call'.args[1]
            viaIs == typeis(<<req.headers.contentType,
                              Arr(PatternsOf(call'.args))>>, Caches).ret
        IN  /\ ret' = JsNull <=> NoBody(req)
            /\ ~NoBody(req) => ret' = viaIs]_vars

\* the rules of the normalizer, in their order
NormalizeRule(type) ==
    IF type.k # "string" THEN JsFalse
    ELSE IF type.s \in DOMAIN COMMON_SHORTCUTS THEN Str(COMMON_SHORTCUTS[type.s])
    ELSE IF type.s = sUrlencoded THEN Str(sApplicationUrlencoded)
    ELSE IF type.s = sMultipart THEN Str(sMultipartAny)
    ELSE IF type.s # <<>> /\ Head(type.s) = "+" THEN Str(sAnyAny \o type.s)
    ELSE IF \A i \in 1..Len(type.s) : type.s[i] # "/" THEN MimeLookup(type.s)
    ELSE type

\* C9: normalize returns false for a non-string and, for a string, the string
\* or false its first applicable rule gives; never any other kind of value.
NormalizeContract ==
    call.op = "normalize" =>
        /\ ret = NormalizeRule(call.args[1])
        /\ ret.k = "string" \/ ret = JsFalse

\* one cache across a step: bounded, counted, only growing, frozen at its cap
CacheStep(cache, size, cacheAfter, sizeAfter, cap) ==
    /\ Cardinality(DOMAIN cacheAfter) <= cap
    /\ sizeAfter = Cardinality(DOMAIN cacheAfter)
    /\ \A key \in DOMAIN cache :
          key \in DOMAIN cacheAfter /\ cacheAfter[key] = cache[key]
    /\ size = cap => (cacheAfter = cache /\ sizeAfter = size)

\* the arguments are strings, or one array of strings
StringArgs(args) ==
    \A i \in 1..Len(args) :
        \/ args[i].k = "string"
        \/ /\ args[i].k = "array"
           /\ \A j \in 1..Len(args[i].items) : args[i].items[j].k = "string"

AtCap ==
    \/ normalizeCacheSize = MAX_NORMALIZE_CACHE
    \/ mimeMatchCacheSize = MAX_MIME_MATCH_CACHE
    \/ splitCacheSize = MAX_SPLIT_CACHE

\* C10: each cache holds at most its cap, its counter is its number of keys,
\* a stored entry is never removed or changed, and a call made at the cap
\* leaves the full cache as it is and still returns a result.
CacheDiscipline ==
    [][/\ CacheStep(normalizeCache, normalizeCacheSize,
                    normalizeCache', normalizeCacheSize', MAX_NORMALIZE_CACHE)
       /\ CacheStep(mimeMatchCache, mimeMatchCacheSize,
                    mimeMatchCache', mimeMatchCacheSize', MAX_MIME_MATCH_CACHE)
       /\ CacheStep(splitCache, splitCacheSize,
                    splitCache', splitCacheSize', MAX_SPLIT_CACHE)
       /\ (AtCap /\ StringArgs(call'.args)) => ret' # Throw]_vars
=============================================================================
